---- MODULE Spec2Model ----
(***************************************************************************)
(* A model of train_agent.py: AlphaZero training by self-play.             *)
(*                                                                         *)
(*   Spec      the whole of train(): the outer iteration loop, self-play   *)
(*             collection ply by ply, example compilation, the shuffled    *)
(*             mini-batch epoch and the averaging of the losses.           *)
(*   SpecPrep  prepare_training_data as a pure function of an arbitrary    *)
(*             batch of recorded games.                                    *)
(*   SpecLoss  loss_fn as a pure function of the model's output and of the *)
(*             targets, in fixed-point arithmetic.                         *)
(*                                                                         *)
(* Arrays are 1-based sequences here; where the source indexes from 0 the  *)
(* translation is noted.  A PRNG key is the path of split indexes that     *)
(* leads to it from the master key PRNGKey(42), the empty path.            *)
(***************************************************************************)
EXTENDS Integers, Sequences, FiniteSets, TLC

VARIABLES
    pc,             \* where train() stands
    batch_size,     \* train's batch_size argument
    iteration,      \* the outer loop's counter
    agent,          \* the model parameters, as the number of updates applied
    optim,          \* the optimizer state, likewise
    rng_key,        \* train's running key
    rng_keys,       \* collect_selfplay_data: the batch keys not yet used
    data_list,      \* collect_selfplay_data: the list `data` of batches
    data,           \* the concatenated MoveOutput
    env,            \* scan carry: the batch of environment states
    scan_key,       \* scan carry: the running key of the batch
    ply,            \* number of scan steps done in the current batch
    selfplay_data,  \* the MoveOutput stacked by the scan so far
    buffer,         \* the (shuffled) list of TrainingExamples
    bar,            \* the epoch's remaining range of slice starts
    losses,         \* the losses recorded by the epoch
    error,          \* the exception that ended train(), or "none"
    \* history, read by the properties only
    keyLog,         \* every split and every search call, with its key
    envTrace,       \* current batch: the environment states before each ply
    snapshots,      \* this iteration: the agent each search call was given
    trained,        \* this epoch: the slice <<lo, hi>> of each train_step
    lastTrained,    \* <<net, optim>> as the latest train_step returned them
    iterSteps,      \* the number of train_step calls of this iteration
    \* prepare_training_data on its own
    pdata,          \* the MoveOutput given
    pbuffer,        \* the list returned
    pdone,          \* whether it has run
    \* loss_fn on its own
    lnet,           \* what batched_policy returns: action logits and value
    ldata,          \* the TrainingExamples' targets
    lout,           \* the losses returned
    ldone           \* whether it has run

trainVars == <<pc, batch_size, iteration, agent, optim, rng_key, rng_keys,
               data_list, data, env, scan_key, ply, selfplay_data, buffer,
               bar, losses, error>>
histVars  == <<keyLog, envTrace, snapshots, trained,
               lastTrained, iterSteps>>
pureVars  == <<pdata, pbuffer, pdone, lnet, ldata, lout, ldone>>
vars      == <<trainVars, histVars, pureVars>>

----------------------------------------------------------------------------
(* Bounds of the model *)

\* train's num_iterations argument (default 50)
NumIterations == 2
\* the data_size collect_selfplay_data is asked for (1024 in the source)
DataSize == 2
\* batch_size ranges over 1 .. MaxBatchSize
MaxBatchSize == 3
\* prepare_training_data alone: at most this many records (games x plies)
MaxRecords == 4

(* Program constants *)

\* pax.scan(..., length=4, ...)
PlyLength == 4

\* The rewards a move that ends a game may return: a loss or a win for the
\* mover (a move that does not end the game returns 0, as does a step on an
\* ended game).
TerminalRewards == {-1, 1}
\* The rewards a recorded ply may hold when the batch is arbitrary.
Rewards == {-1, 0, 1}

----------------------------------------------------------------------------
(* Sequences *)

RECURSIVE Flatten(_)
Flatten(ss) == IF ss = <<>> THEN <<>> ELSE Head(ss) \o Flatten(Tail(ss))

\* Python's range(start, stop, step) for step > 0, as a sequence
RECURSIVE Range(_, _, _)
Range(start, stop, step) ==
    IF start >= stop THEN <<>>
    ELSE <<start>> \o Range(start + step, stop, step)

\* x[lo : hi] on a 0-based Python sequence (clipped to the length)
Slice(x, lo, hi) ==
    LET h == IF hi > Len(x) THEN Len(x) ELSE hi
    IN  IF lo >= h THEN <<>> ELSE SubSeq(x, lo + 1, h)

Reverse(s) == [k \in 1..Len(s) |-> s[Len(s) + 1 - k]]

----------------------------------------------------------------------------
(* PRNG keys *)

MasterKey == <<>>

\* jax.random.split(key, num): num fresh keys derived from key
split(key, num) == [c \in 1..num |-> Append(key, c - 1)]

----------------------------------------------------------------------------
(* The environment adapter (connect_two_game.py, env.py and utils.py are not *)
(* part of the sources at hand; modelled from the specification, sections    *)
(* 4.1 and 6).  A state is the number of moves made and whether the game     *)
(* has ended; which action the search selects is opaque, so a step on a      *)
(* running game may continue it or end it with an outcome reward, and a      *)
(* step on an ended game is a no-op.                                         *)

reset_env == [moves |-> 0, done |-> FALSE]

replicate(e, n) == [g \in 1..n |-> e]

canonical_observation(e) == e.moves

is_terminated(e) == e.done

\* the results <<next state, reward>> env_step may give in state e
env_step(e) ==
    IF e.done
    THEN {[env |-> e, reward |-> 0]}
    ELSE {[env |-> [moves |-> e.moves + 1, done |-> FALSE], reward |-> 0]}
         \cup {[env |-> [moves |-> e.moves + 1, done |-> TRUE], reward |-> r] :
                 r \in TerminalRewards}

\* jax.vmap(env_step) over the batch: one result per game
vmap_env_step(es) ==
    {res \in [1..Len(es) -> UNION {env_step(es[g]) : g \in 1..Len(es)}] :
        \A g \in 1..Len(es) : res[g] \in env_step(es[g])}

\* The search oracle's improved distribution for root g: an opaque value
\* fixed by the key and the root it is computed for.
gumbel_muzero_policy(key, g) == [key |-> key, root |-> g]

----------------------------------------------------------------------------
(* collect_batched_selfplay_data: single_move *)

MoveOutput(state, reward, terminated, action_weights) ==
    [state |-> state, reward |-> reward, terminated |-> terminated,
     action_weights |-> action_weights]

EmptyMoveOutput(n) ==
    MoveOutput([g \in 1..n |-> <<>>], [g \in 1..n |-> <<>>],
               [g \in 1..n |-> <<>>], [g \in 1..n |-> <<>>])

\* pax.scan with time_major=False: the step's output joins each game's row
Stack(acc, out) ==
    [f \in DOMAIN acc |-> [g \in 1..Len(acc[f]) |-> Append(acc[f][g], out[f][g])]]

\* the key single_move hands the search, of the two it split (line 72, 79)
\* (variant: the search is handed the key that is carried on)
SearchKeyNext(keys) == keys[2]
SearchKey(keys) == keys[1]

\* the key single_move carries on to the next ply (line 72, 89)
CarriedKey(keys) == keys[2]

\* the terminated flags single_move records (line 74, 93): read before the step
\* (variant: the flags are read after the step)
TerminatedAfterStep(before, after) == [g \in 1..Len(after) |-> is_terminated(after[g])]
RecordedTerminated(before, after) == [g \in 1..Len(before) |-> is_terminated(before[g])]

\* the scan runs while fewer than `length` steps are done (line 99)
\* (variant: the scan stops once every game has ended)
ScanUntilAllTerminated(n, es) == n < PlyLength /\ \E g \in 1..Len(es) : ~es[g].done
ScanContinues(n, es) == n < PlyLength

----------------------------------------------------------------------------
(* prepare_training_data *)

TrainingExample(state, action_weights, value) ==
    [state |-> state, action_weights |-> action_weights, value |-> value]

\* `value` is None (here <<>>) or a number v (here <<v>>)
None == <<>>

\* line 139: value = reward[idx] if value is None else -value
\* (variant: the sign is not flipped)
KeepValue(value, r) == IF value = None THEN <<r>> ELSE <<value[1]>>
PropagateValue(value, r) == IF value = None THEN <<r>> ELSE <<-value[1]>>

\* line 137: if is_terminated[idx]: continue     (idx is 0-based)
\* (variant: terminated plies are not skipped)
NeverSkip(flags, idx) == FALSE
SkipPly(flags, idx) == flags[idx + 1]

\* line 135: for j in range(L)
\* (variant: range(L - 1))
PliesButLast(L) == Range(0, L - 1, 1)
PlyRange(L) == Range(0, L, 1)

\* lines 135-146 for game i, the js still to visit
RECURSIVE InnerLoop(_, _, _, _, _)
InnerLoop(d, i, js, value, buf) ==
    IF js = <<>> THEN buf
    ELSE LET L   == Len(d.terminated[i])
             idx == L - 1 - Head(js)
         IN  IF SkipPly(d.terminated[i], idx)
             THEN InnerLoop(d, i, Tail(js), value, buf)
             ELSE LET v == PropagateValue(value, d.reward[i][idx + 1])
                  IN  InnerLoop(d, i, Tail(js), v,
                          Append(buf, TrainingExample(d.state[i][idx + 1],
                                          d.action_weights[i][idx + 1], v[1])))

\* lines 128-146, the games still to visit
RECURSIVE OuterLoop(_, _, _)
OuterLoop(d, is, buf) ==
    IF is = <<>> THEN buf
    ELSE LET i == Head(is) + 1
         IN  OuterLoop(d, Tail(is),
                 InnerLoop(d, i, PlyRange(Len(d.terminated[i])), None, buf))

prepare_training_data(d) == OuterLoop(d, Range(0, Len(d.terminated), 1), <<>>)

----------------------------------------------------------------------------
(* train *)

\* random.shuffle(buffer), line 201.  Of the orders it may give, two are
\* kept: the list as it is and reversed; nothing below reads an example's
\* position other than through the slices the epoch takes.
shuffle(b) == {b, Reverse(b)}

\* np.concatenate of each field over the list of batches, line 116
Concatenate(batches) ==
    [f \in DOMAIN EmptyMoveOutput(0) |->
        Flatten([k \in 1..Len(batches) |-> batches[k][f]])]

\* opax.apply_gradients inside train_step, line 175: one more update
ApplyGradients(x) == x + 1

\* lines 113-115: a collected batch is appended; the agent is not rebound
\* (variant: the agent is updated as each batch arrives)
TrainOnBatch(a) == a + 1
AgentAfterBatch(a) == a

\* line 206: range(0, N - batch_size, batch_size)
EpochRange(N, M) == Range(0, N - M, M)

\* A name that is rebound before it is read again holds nothing in between:
\* the scan's carry and output once the batch is returned, the list of
\* batches once concatenated, data once compiled, and the buffer and the
\* losses once averaged.
ScanCleared ==
    /\ env' = <<>>
    /\ scan_key' = <<>>
    /\ ply' = 0
    /\ selfplay_data' = EmptyMoveOutput(0)
    /\ envTrace' = <<>>

Crash(exception) ==
    /\ pc' = "crashed"
    /\ error' = exception

Init ==
    /\ pc = "loop"
    /\ batch_size \in 1..MaxBatchSize
    /\ iteration = 0
    /\ agent = 0
    /\ optim = 0
    /\ rng_key = MasterKey
    /\ rng_keys = <<>>
    /\ data_list = <<>>
    /\ data = EmptyMoveOutput(0)
    /\ env = <<>>
    /\ scan_key = <<>>
    /\ ply = 0
    /\ selfplay_data = EmptyMoveOutput(0)
    /\ buffer = <<>>
    /\ bar = <<>>
    /\ losses = <<>>
    /\ error = "none"
    /\ keyLog = <<>>
    /\ envTrace = <<>>
    /\ snapshots = <<>>
    /\ trained = <<>>
    /\ lastTrained = <<0, 0>>
    /\ iterSteps = 0
    /\ pdata = EmptyMoveOutput(0)
    /\ pbuffer = <<>>
    /\ pdone = FALSE
    /\ lnet = <<>>
    /\ ldata = <<>>
    /\ lout = <<>>
    /\ ldone = FALSE

\* lines 196-199 and 108-110: split the running key, then one key per batch
StartIteration ==
    /\ pc = "loop"
    /\ iteration < NumIterations
    /\ LET keys      == split(rng_key, 2)
           rng_key_1 == keys[1]
           N         == DataSize \div batch_size
       IN  /\ rng_key' = keys[2]
           /\ rng_keys' = split(rng_key_1, N)
           /\ keyLog' = keyLog \o <<[op |-> "split", key |-> rng_key],
                                    [op |-> "split", key |-> rng_key_1]>>
    /\ data_list' = <<>>
    /\ snapshots' = <<>>
    /\ iterSteps' = 0
    /\ pc' = "selfplay"
    /\ UNCHANGED <<batch_size, iteration, agent, optim, data, env, scan_key,
                   ply, selfplay_data, buffer, bar, losses, error, envTrace,
                   trained, lastTrained, pureVars>>

\* lines 113-114 and 96-97: the next key, a fresh batch of start states
BeginBatch ==
    /\ pc = "selfplay"
    /\ rng_keys # <<>>
    /\ scan_key' = Head(rng_keys)
    /\ rng_keys' = Tail(rng_keys)
    /\ env' = replicate(reset_env, batch_size)
    /\ ply' = 0
    /\ selfplay_data' = EmptyMoveOutput(batch_size)
    /\ envTrace' = <<env'>>
    /\ pc' = "scan"
    /\ UNCHANGED <<batch_size, iteration, agent, optim, rng_key, data_list,
                   data, buffer, bar, losses, error, keyLog, snapshots,
                   trained, lastTrained, iterSteps, pureVars>>

\* lines 65-94: one ply of all the games of the batch
single_move ==
    /\ pc = "scan"
    /\ ScanContinues(ply, env)
    /\ LET keys  == split(scan_key, 2)
           B     == Len(env)
           state == [g \in 1..B |-> canonical_observation(env[g])]
           action_weights ==
               [g \in 1..B |-> gumbel_muzero_policy(SearchKey(keys), g)]
       IN  \E res \in vmap_env_step(env) :
             LET env_next == [g \in 1..B |-> res[g].env]
                 reward   == [g \in 1..B |-> res[g].reward]
             IN  /\ env' = env_next
                 /\ scan_key' = CarriedKey(keys)
                 /\ selfplay_data' =
                      Stack(selfplay_data,
                            MoveOutput(state, reward,
                                       RecordedTerminated(env, env_next),
                                       action_weights))
                 /\ envTrace' = Append(envTrace, env_next)
                 /\ keyLog' = keyLog \o
                      <<[op |-> "split", key |-> scan_key],
                        [op |-> "search", key |-> SearchKey(keys)]>>
    /\ snapshots' = Append(snapshots, agent)
    /\ ply' = ply + 1
    /\ UNCHANGED <<pc, batch_size, iteration, agent, optim, rng_key, rng_keys,
                   data_list, data, buffer, bar, losses, error, trained,
                   lastTrained, iterSteps, pureVars>>

\* lines 100-101 and 115: the scan is over, the batch joins the list
EndBatch ==
    /\ pc = "scan"
    /\ ~ScanContinues(ply, env)
    /\ data_list' = Append(data_list, selfplay_data)
    /\ agent' = AgentAfterBatch(agent)
    /\ pc' = "selfplay"
    /\ ScanCleared
    /\ UNCHANGED <<batch_size, iteration, optim, rng_key, rng_keys, data,
                   buffer, bar, losses, error, keyLog, snapshots, trained,
                   lastTrained, iterSteps, pureVars>>

\* lines 116-117: tree_map over no batch at all raises TypeError
ConcatenateData ==
    /\ pc = "selfplay"
    /\ rng_keys = <<>>
    /\ IF data_list = <<>>
       THEN /\ Crash("TypeError")
            /\ UNCHANGED <<data, data_list>>
       ELSE /\ data' = Concatenate(data_list)
            /\ data_list' = <<>>
            /\ pc' = "prepare"
            /\ UNCHANGED error
    /\ UNCHANGED <<batch_size, iteration, agent, optim, rng_key, rng_keys,
                   env, scan_key, ply, selfplay_data, buffer, bar, losses,
                   histVars, pureVars>>

\* lines 200-206: compile, shuffle, stack (TypeError on an empty list), and
\* lay out the epoch
PrepareBuffer ==
    /\ pc = "prepare"
    /\ \E shuffled \in shuffle(prepare_training_data(data)) :
         /\ buffer' = shuffled
         /\ IF shuffled = <<>>
            THEN /\ Crash("TypeError")
                 /\ UNCHANGED <<bar, losses, data>>
            ELSE /\ losses' = <<>>
                 /\ bar' = EpochRange(Len(shuffled), batch_size)
                 /\ data' = EmptyMoveOutput(0)
                 /\ pc' = "epoch"
                 /\ UNCHANGED error
    /\ trained' = <<>>
    /\ UNCHANGED <<batch_size, iteration, agent, optim, rng_key, rng_keys,
                   data_list, env, scan_key, ply, selfplay_data, keyLog,
                   envTrace, snapshots, lastTrained, iterSteps, pureVars>>

\* lines 208-211: one train_step on the slice [i, i + batch_size)
TrainStep ==
    /\ pc = "epoch"
    /\ bar # <<>>
    /\ LET i     == Head(bar)
           batch == Slice(buffer, i, i + batch_size)
       IN  /\ agent' = ApplyGradients(agent)
           /\ optim' = ApplyGradients(optim)
           /\ losses' = Append(losses, [step |-> optim, size |-> Len(batch)])
           /\ trained' = Append(trained, <<i, i + Len(batch)>>)
    /\ bar' = Tail(bar)
    /\ lastTrained' = <<agent', optim'>>
    /\ iterSteps' = iterSteps + 1
    /\ UNCHANGED <<pc, batch_size, iteration, rng_key, rng_keys, data_list,
                   data, env, scan_key, ply, selfplay_data, buffer, error,
                   keyLog, envTrace, snapshots, pureVars>>

\* lines 213-216: unpacking zip(*losses) of no losses raises ValueError
AverageLosses ==
    /\ pc = "epoch"
    /\ bar = <<>>
    /\ IF losses = <<>>
       THEN /\ Crash("ValueError")
            /\ UNCHANGED <<iteration, buffer, losses, trained>>
       ELSE /\ iteration' = iteration + 1
            /\ pc' = "loop"
            /\ buffer' = <<>>
            /\ losses' = <<>>
            /\ trained' = <<>>
            /\ UNCHANGED error
    /\ UNCHANGED <<batch_size, agent, optim, rng_key, rng_keys, data_list,
                   data, env, scan_key, ply, selfplay_data, bar, keyLog,
                   envTrace, snapshots, lastTrained, iterSteps, pureVars>>

\* lines 218-223: after the last iteration the weights are saved
SaveWeights ==
    /\ pc = "loop"
    /\ iteration >= NumIterations
    /\ pc' = "done"
    /\ UNCHANGED <<batch_size, iteration, agent, optim, rng_key, rng_keys,
                   data_list, data, env, scan_key, ply, selfplay_data, buffer,
                   bar, losses, error, histVars, pureVars>>

Next ==
    \/ StartIteration
    \/ BeginBatch
    \/ single_move
    \/ EndBatch
    \/ ConcatenateData
    \/ PrepareBuffer
    \/ TrainStep
    \/ AverageLosses
    \/ SaveWeights

Spec == Init /\ [][Next]_vars

----------------------------------------------------------------------------
(* prepare_training_data on its own: any batch of N games of L plies each,   *)
(* with any flags and any rewards.  Record (i, p) carries the observation    *)
(* <<i, p>> and the action weights <<-i, -p>>, so that an example names the  *)
(* record it was made from.                                                  *)

Shapes(most) ==
    {sh \in (0..most) \X (1..most) : sh[1] * sh[2] <= most}

PrepInputs(most) ==
    UNION {
      {MoveOutput([i \in 1..sh[1] |-> [p \in 1..sh[2] |-> <<i, p>>]],
                  rw, tm,
                  [i \in 1..sh[1] |-> [p \in 1..sh[2] |-> <<-i, -p>>]]) :
          rw \in [1..sh[1] -> [1..sh[2] -> Rewards]],
          tm \in [1..sh[1] -> [1..sh[2] -> BOOLEAN]]} : sh \in Shapes(most)}

InitPrep ==
    /\ pc = "loop"
    /\ batch_size = 1
    /\ iteration = 0
    /\ agent = 0
    /\ optim = 0
    /\ rng_key = MasterKey
    /\ rng_keys = <<>>
    /\ data_list = <<>>
    /\ data = EmptyMoveOutput(0)
    /\ env = <<>>
    /\ scan_key = <<>>
    /\ ply = 0
    /\ selfplay_data = EmptyMoveOutput(0)
    /\ buffer = <<>>
    /\ bar = <<>>
    /\ losses = <<>>
    /\ error = "none"
    /\ keyLog = <<>>
    /\ envTrace = <<>>
    /\ snapshots = <<>>
    /\ trained = <<>>
    /\ lastTrained = <<0, 0>>
    /\ iterSteps = 0
    /\ pdata \in PrepInputs(MaxRecords)
    /\ pbuffer = <<>>
    /\ pdone = FALSE
    /\ lnet = <<>>
    /\ ldata = <<>>
    /\ lout = <<>>
    /\ ldone = FALSE

\* lines 120-148
PrepareTrainingData ==
    /\ ~pdone
    /\ pbuffer' = prepare_training_data(pdata)
    /\ pdone' = TRUE
    /\ UNCHANGED <<pdata, trainVars, histVars, lnet, ldata, lout, ldone>>

NextPrep == PrepareTrainingData

SpecPrep == InitPrep /\ [][NextPrep]_vars

----------------------------------------------------------------------------
(* loss_fn on its own.  Real numbers are fixed-point integers, in units of   *)
(* 1/Scale; exp and log are computed to that resolution by their series.     *)

Scale == 10 * 1000

\* the number of actions of the game
NumActions == 2

\* a / b to the nearest unit, b > 0
RDiv(a, b) == (2 * a + b) \div (2 * b)

\* sum over k >= 0 of f^k / k!, from the term of index k - 1 on
RECURSIVE ExpSeries(_, _, _)
ExpSeries(f, k, term) ==
    IF term = 0 THEN 0
    ELSE term + ExpSeries(f, k + 1, RDiv(term * f, k * Scale))

\* r * e^(-n)
RECURSIVE TimesExpMinus(_, _)
TimesExpMinus(r, n) ==
    IF n = 0 \/ r = 0 THEN r
    ELSE TimesExpMinus(RDiv(r * ExpSeries(-Scale, 1, Scale), Scale), n - 1)

\* jnp.exp(x) for x <= 0; below e^(-12) the result is under half a unit
Exp(x) ==
    LET n == (-x) \div Scale
        f == x + n * Scale
    IN  IF n > 12 THEN 0 ELSE TimesExpMinus(ExpSeries(f, 1, Scale), n)

\* sum over odd k of z^k / k, from the term of index k on (zz is z squared)
RECURSIVE AtanhSeries(_, _, _)
AtanhSeries(zz, k, pow) ==
    IF pow = 0 THEN 0
    ELSE RDiv(pow, k) + AtanhSeries(zz, k + 2, RDiv(pow * zz, Scale))

\* log(y) for y >= 1, as 2 * atanh((y - 1) / (y + 1))
Log(y) ==
    LET z == RDiv((y - Scale) * Scale, y + Scale)
    IN  2 * AtanhSeries(RDiv(z * z, Scale), 1, z)

RECURSIVE Sum(_)
Sum(xs) == IF xs = <<>> THEN 0 ELSE Head(xs) + Sum(Tail(xs))

\* jnp.mean
Mean(xs) == RDiv(Sum(xs), Len(xs))

MaxOf(xs) == CHOOSE m \in {xs[k] : k \in 1..Len(xs)} : \A k \in 1..Len(xs) : xs[k] <= m

\* jax.nn.log_softmax over the last axis: x - max - log(sum(exp(x - max)))
log_softmax(x) ==
    LET shifted == [k \in 1..Len(x) |-> x[k] - MaxOf(x)]
        lse     == Log(Sum([k \in 1..Len(x) |-> Exp(shifted[k])]))
    IN  [k \in 1..Len(x) |-> shifted[k] - lse]

\* jnp.clip(x, a_min=a_min, a_max=None)
clip(x, a_min) == [k \in 1..Len(x) |-> IF x[k] < a_min THEN a_min ELSE x[k]]

\* optax.l2_loss(predictions, targets) = 0.5 * (predictions - targets)^2
l2_loss(prediction, target) ==
    RDiv((prediction - target) * (prediction - target), 2 * Scale)

\* lines 155-157
mse_loss(net, d) ==
    Mean([b \in 1..Len(net.value) |-> l2_loss(net.value[b], d.value[b])])

\* lines 160-161, for example b
action_prs(net, b) ==
    LET action_logits == log_softmax(net.action_logits[b])
    IN  [k \in 1..Len(action_logits) |-> Exp(action_logits[k])]

\* lines 160-165
kl_loss(net, d) ==
    Mean([b \in 1..Len(net.action_logits) |->
            LET action_logits == log_softmax(net.action_logits[b])
                prs           == action_prs(net, b)
                target_logits == clip(log_softmax(d.action_weights[b]), -50 * Scale)
            IN  Sum([k \in 1..Len(prs) |->
                       RDiv(prs[k] * (action_logits[k] - target_logits[k]), Scale)])])

\* line 168: the total and the two parts
loss_fn(net, d) ==
    [total |-> mse_loss(net, d) + kl_loss(net, d),
     mse |-> mse_loss(net, d),
     kl |-> kl_loss(net, d)]

\* The model's outputs and the targets tried: a batch of one example.
LogitValues == {-200 * Scale, -Scale, 0, Scale}
NetValues == {-Scale, 0, Scale \div 2}
TargetValues == {-Scale, 0, Scale}
Quarters == {q * (Scale \div 4) : q \in 0..4}
TargetWeights == {w \in [1..NumActions -> Quarters] : Sum(w) = Scale}

InitLoss ==
    /\ pc = "loop"
    /\ batch_size = 1
    /\ iteration = 0
    /\ agent = 0
    /\ optim = 0
    /\ rng_key = MasterKey
    /\ rng_keys = <<>>
    /\ data_list = <<>>
    /\ data = EmptyMoveOutput(0)
    /\ env = <<>>
    /\ scan_key = <<>>
    /\ ply = 0
    /\ selfplay_data = EmptyMoveOutput(0)
    /\ buffer = <<>>
    /\ bar = <<>>
    /\ losses = <<>>
    /\ error = "none"
    /\ keyLog = <<>>
    /\ envTrace = <<>>
    /\ snapshots = <<>>
    /\ trained = <<>>
    /\ lastTrained = <<0, 0>>
    /\ iterSteps = 0
    /\ pdata = EmptyMoveOutput(0)
    /\ pbuffer = <<>>
    /\ pdone = FALSE
    /\ \E logits \in [1..NumActions -> LogitValues], v \in NetValues :
         lnet = [action_logits |-> <<logits>>, value |-> <<v>>]
    /\ \E w \in TargetWeights, t \in TargetValues :
         ldata = [action_weights |-> <<w>>, value |-> <<t>>]
    /\ lout = <<>>
    /\ ldone = FALSE

\* lines 151-168
ComputeLoss ==
    /\ ~ldone
    /\ lout' = loss_fn(lnet, ldata)
    /\ ldone' = TRUE
    /\ UNCHANGED <<lnet, ldata, trainVars, histVars, pdata, pbuffer, pdone>>

NextLoss == ComputeLoss

SpecLoss == InitLoss /\ [][NextLoss]_vars

----------------------------------------------------------------------------
(* Properties of prepare_training_data (SpecPrep) *)

\* the plies of game i whose terminated flag is false
Live(i) == {p \in 1..Len(pdata.terminated[i]) : ~pdata.terminated[i][p]}

Max(S) == CHOOSE m \in S : \A x \in S : x <= m

\* the positions of the buffer whose example was made from record (i, p)
ExamplesOf(i, p) == {k \in 1..Len(pbuffer) : pbuffer[k].state = pdata.state[i][p]}

Games == 1..Len(pdata.terminated)

\* (-1)^n
Sign(n) == IF n % 2 = 0 THEN 1 ELSE -1

\* C1: in every game the example of the j-th of the k non-terminated plies
\* has value (-1)^(k-j) * r, r being the reward recorded at the last
\* non-terminated ply; terminated plies and the other rewards play no part.
C1_ValueAlternation ==
    pdone =>
      \A i \in Games : \A p \in Live(i) :
        LET k == Cardinality(Live(i))
            j == Cardinality({q \in Live(i) : q <= p})
            r == pdata.reward[i][Max(Live(i))]
        IN  /\ ExamplesOf(i, p) # {}
            /\ \A e \in ExamplesOf(i, p) : pbuffer[e].value = Sign(k - j) * r

\* C1 happens: a game of four plies, three of them played with a decisive
\* outcome, a terminated ply skipped between them, and other rewards recorded
\* that differ from the outcome.
C1_Witness ==
    /\ pdone
    /\ \E i \in Games :
         /\ Len(pdata.terminated[i]) = 4
         /\ Live(i) = {1, 2, 4}
         /\ pdata.reward[i][4] = 1
         /\ pdata.reward[i][3] = -1
         /\ pdata.reward[i][1] = -1
         /\ [k \in 1..Len(pbuffer) |-> pbuffer[k].value] = <<1, -1, 1>>

\* C2: no example is made from a record whose terminated flag is true; a
\* game whose records are all terminated contributes none.
C2_PaddingExclusion ==
    pdone =>
      \A i \in Games : \A p \in 1..Len(pdata.terminated[i]) :
        pdata.terminated[i][p] => ExamplesOf(i, p) = {}

\* C2 happens: a batch with an all-terminated game beside a game that has
\* both played and terminated plies.
C2_Witness ==
    /\ pdone
    /\ Len(pdata.terminated) = 2
    /\ Live(1) = {}
    /\ Live(2) = {1}
    /\ Len(pdata.terminated[2]) = 2
    /\ Len(pbuffer) = 1

\* C3: every non-terminated record yields exactly one example, carrying the
\* record's observation and action weights; the buffer holds nothing else.
C3_OneExamplePerLiveRecord ==
    pdone =>
      /\ \A i \in Games : \A p \in Live(i) :
           /\ Cardinality(ExamplesOf(i, p)) = 1
           /\ \A e \in ExamplesOf(i, p) :
                pbuffer[e].action_weights = pdata.action_weights[i][p]
      /\ Len(pbuffer) = Cardinality({ip \in Games \X (1..MaxRecords + 1) :
                                       ip[2] \in Live(ip[1])})

\* C3 happens: a game that never terminates within its four plies gives four
\* examples.
C3_Witness ==
    /\ pdone
    /\ Len(pdata.terminated) = 1
    /\ Live(1) = {1, 2, 3, 4}
    /\ Len(pbuffer) = 4

----------------------------------------------------------------------------
(* Properties of train (Spec) *)

EpochOver == pc = "epoch" /\ bar = <<>>

\* C4: an epoch over N examples makes exactly floor(N / M) train_step calls,
\* the k-th (from 0) on the slice [k*M, (k+1)*M).
C4_EpochTakesEveryFullBatch ==
    EpochOver =>
      /\ Len(trained) = Len(buffer) \div batch_size
      /\ \A k \in 1..Len(trained) :
           trained[k] = <<(k - 1) * batch_size, k * batch_size>>

\* C5: with fewer examples than one mini-batch in the iteration's buffer
\* (none at all when no batch was collected), train skips the training step
\* or stops with a configuration error of its own; it never runs into the
\* stacking of nothing or the averaging of no losses.
C5_SmallBufferIsDetected ==
    (pc = "crashed" /\ Len(buffer) < batch_size) =>
        error = "ConfigurationError"

\* the MoveOutputs of whole batches, and the one the scan is building
Batches == {data_list[b] : b \in 1..Len(data_list)}

Monotone(flags) ==
    \A p \in 1..Len(flags) : \A q \in p..Len(flags) : flags[p] => flags[q]

\* C6: every collected batch holds exactly PlyLength records for each of its
\* batch_size games, and in every game's records, those being stacked
\* included, terminated stays true once it is true.
C6_FixedLengthMonotoneFlags ==
    /\ \A d \in Batches : \A f \in DOMAIN d :
         /\ Len(d[f]) = batch_size
         /\ \A g \in 1..batch_size : Len(d[f][g]) = PlyLength
    /\ \A d \in Batches \cup {selfplay_data} :
         \A g \in 1..Len(d.terminated) : Monotone(d.terminated[g])

\* C6 happens: a collected batch with a game that ended at its first move.
C6_Witness ==
    \E d \in Batches : \E g \in 1..batch_size :
        d.terminated[g] = <<FALSE, TRUE, TRUE, TRUE>>

\* C8: record k of a game holds the observation and the terminated flag of
\* the state before ply k's step, and the reward of the step from that very
\* state; so the record of the move that ends the game is not terminated and
\* carries the outcome, and the next record is the first terminated one.
C8_PreMoveStatePostMoveReward ==
    \A g \in 1..Len(selfplay_data.state) :
      \A k \in 1..Len(selfplay_data.state[g]) :
        LET before == envTrace[k][g]
            after  == envTrace[k + 1][g]
            rec(f) == selfplay_data[f][g][k]
        IN  /\ rec("state") = canonical_observation(before)
            /\ rec("terminated") = is_terminated(before)
            /\ [env |-> after, reward |-> rec("reward")] \in env_step(before)
            /\ (~before.done /\ after.done) =>
                 /\ \A q \in 1..k : ~selfplay_data.terminated[g][q]
                 /\ rec("reward") \in TerminalRewards
                 /\ k < Len(selfplay_data.state[g]) =>
                      selfplay_data.terminated[g][k + 1]

\* C8 happens: a game ended by its second move, won by the mover, with the
\* two records after it stacked.
C8_Witness ==
    /\ pc = "scan"
    /\ \E g \in 1..Len(selfplay_data.state) :
         /\ selfplay_data.terminated[g] = <<FALSE, FALSE, TRUE, TRUE>>
         /\ selfplay_data.reward[g] = <<0, 1, 0, 0>>
         /\ selfplay_data.state[g] = <<0, 1, 2, 2>>

\* C9: over the whole run no key is used twice, be it split or handed to the
\* search: there are as many distinct keys as uses.
C9_KeysNeverReused ==
    Cardinality({keyLog[k].key : k \in 1..Len(keyLog)}) = Len(keyLog)

\* C9 happens: the second batch of the second iteration has made its last
\* search call.
C9_Witness ==
    /\ iteration = 1
    /\ Len(data_list) = 1
    /\ pc = "scan"
    /\ ply = PlyLength
    /\ keyLog[Len(keyLog)].op = "search"

\* C10: parameters and optimizer state are those the latest train_step
\* returned; every search call of an iteration is given the same agent, which
\* during collection is the one train holds; and a train_step of the
\* iteration runs only once all its batches are collected and compiled.
C10_SelfPlayOnOneSnapshot ==
    /\ <<agent, optim>> = lastTrained
    /\ \A a \in 1..Len(snapshots) : snapshots[a] = snapshots[1]
    /\ pc \in {"selfplay", "scan", "prepare"} =>
         /\ iterSteps = 0
         /\ \A a \in 1..Len(snapshots) : snapshots[a] = agent
    /\ iterSteps > 0 =>
         /\ pc \in {"epoch", "loop", "done"}
         /\ rng_keys = <<>>
         /\ Len(snapshots) = PlyLength * (DataSize \div batch_size)

\* C10 happens: the second batch of the second iteration is under way, after
\* the first iteration has trained the agent.
C10_Witness ==
    /\ iteration = 1
    /\ pc = "scan"
    /\ Len(data_list) = 1
    /\ Len(snapshots) > PlyLength
    /\ agent > 0

----------------------------------------------------------------------------
(* Properties of loss_fn (SpecLoss) *)

\* what the series' rounding may add up to, in units of 1/Scale
Tolerance == Scale \div 500

\* C7: the value loss and the policy loss are never negative, and the policy
\* loss is 0 whenever the predicted distribution is the target distribution.
C7_LossesNonNegativeZeroAtTarget ==
    ldone =>
      /\ lout.mse >= 0
      /\ lout.kl >= -Tolerance
      /\ action_prs(lnet, 1) = ldata.action_weights[1] =>
           (lout.kl <= Tolerance /\ lout.kl >= -Tolerance)

\* the first half of C7 alone
LossesNonNegative ==
    ldone => (lout.mse >= 0 /\ lout.kl >= -Tolerance)

====
